---- MODULE Spec2Model ----
(***************************************************************************)
(* Model of exampleMODIS.js: the script that builds the NDVI, LST, SOL and *)
(* We image collections over a list of 16-day anchors, masks them with the *)
(* soybean mask and hands them to computeNPP.collectionNPP and             *)
(* computeNPP.singleNPP.                                                   *)
(*                                                                         *)
(* Dates are ISO strings in the script; here a date string is the tuple    *)
(* <<year, month, day>> and an ee.Date is a day number counted from        *)
(* 2018-01-01.  Pixel values are exact rationals <<num, den>> with den > 0;*)
(* <<0, 0>> is a masked (no-data) pixel.                                   *)
(***************************************************************************)
EXTENDS Integers, Sequences, FiniteSets, TLC

\* ------------------------------------------------------------------ bounds
MaxAnchors == 4
NumPixels == 2

Pixels == 1..NumPixels

\* ------------------------------------------------------- exact arithmetic
RECURSIVE GCD(_, _)
GCD(a, b) == IF b = 0 THEN a ELSE GCD(b, a % b)

Abs(x) == IF x < 0 THEN -x ELSE x

NoData == <<0, 0>>

IsValid(v) == v[2] # 0

\* the rational n/d in lowest terms with a positive denominator
Rat(n, d) ==
    LET g == GCD(Abs(n), Abs(d))
        s == IF d < 0 THEN -1 ELSE 1
    IN  <<(s * n) \div g, (s * d) \div g>>

Num(k) == <<k, 1>>

\* pixel arithmetic of ee.Image: a masked operand gives a masked result
Add(a, b) ==
    IF IsValid(a) /\ IsValid(b)
    THEN Rat(a[1] * b[2] + b[1] * a[2], a[2] * b[2]) ELSE NoData

Subtract(a, b) ==
    IF IsValid(a) /\ IsValid(b)
    THEN Rat(a[1] * b[2] - b[1] * a[2], a[2] * b[2]) ELSE NoData

Multiply(a, b) ==
    IF IsValid(a) /\ IsValid(b)
    THEN Rat(a[1] * b[1], a[2] * b[2]) ELSE NoData

\* ee.Image.divide gives 0 where the divisor is 0
Divide(a, b) ==
    IF IsValid(a) /\ IsValid(b)
    THEN IF b[1] = 0 THEN Num(0) ELSE Rat(a[1] * b[2], a[2] * b[1])
    ELSE NoData

\* ------------------------------------------------------------- calendar
IsLeap(y) == (y % 4 = 0 /\ y % 100 # 0) \/ y % 400 = 0

DaysInMonth(y, m) ==
    IF m = 2 THEN (IF IsLeap(y) THEN 29 ELSE 28)
    ELSE IF m \in {4, 6, 9, 11} THEN 30 ELSE 31

DaysInYear(y) == IF IsLeap(y) THEN 366 ELSE 365

EpochYear == 2018

RECURSIVE DaysBeforeMonth(_, _)
DaysBeforeMonth(y, m) ==
    IF m = 1 THEN 0 ELSE DaysBeforeMonth(y, m - 1) + DaysInMonth(y, m - 1)

RECURSIVE DaysBeforeYear(_)
DaysBeforeYear(y) ==
    IF y = EpochYear THEN 0 ELSE DaysBeforeYear(y - 1) + DaysInYear(y - 1)

\* ee.Date(dateString): the day number of an ISO date
ParseDate(s) == DaysBeforeYear(s[1]) + DaysBeforeMonth(s[1], s[2]) + (s[3] - 1)

RECURSIVE FormatFrom(_, _, _)
FormatFrom(y, m, d) ==
    IF d >= DaysInYear(y) /\ m = 1 THEN FormatFrom(y + 1, 1, d - DaysInYear(y))
    ELSE IF d >= DaysInMonth(y, m) THEN FormatFrom(y, m + 1, d - DaysInMonth(y, m))
    ELSE <<y, m, d + 1>>

\* ee.Date.format("yyyy-MM-dd")
FormatDate(day) == FormatFrom(EpochYear, 1, day)

\* ee.Date.advance(n, "day")
Advance(day, n) == day + n

\* ------------------------------------------------------------- program state
VARIABLES
    dates,           \* the anchor list (line 43), a sequence of date strings
    ROI,             \* region of interest: the pixels inside it
    soybeanMask,     \* the shared mask: the pixels it keeps
    defect,          \* what the provider's catalogue lacks (nothing, an outage, a hole)
    emptyReduce,     \* what a reduction of an empty collection evaluates to
    pc,              \* position in the script
    startDate,       \* line 44
    endDate,         \* line 45
    collectionNDVI,
    collectionLST,
    collectionSOL,
    collectionWe,
    queries,         \* the filterDate ranges sent to the provider, per source
    batchCall,       \* the call of computeNPP.collectionNPP, once made
    counts,          \* the printed pixel counts, once computed
    singleCall       \* the call of computeNPP.singleNPP, once made

vars == <<dates, ROI, soybeanMask, defect, emptyReduce, pc, startDate, endDate,
          collectionNDVI, collectionLST, collectionSOL, collectionWe,
          queries, batchCall, counts, singleCall>>

Sources == {"NDVI", "LST", "SOL", "We"}

Accumulated == {"LST", "SOL", "We"}

SCALE_M_PX == 250

Topt == Rat(2485, 100)

LUEmax == Rat(926, 1000)

\* ------------------------------------------------- the provider's catalogue
\* the anchors the configuration is drawn from: those of line 43
AnchorDates == {<<2018, 1, 1>>, <<2018, 1, 17>>, <<2018, 2, 2>>, <<2018, 2, 18>>}

CatalogueDays == 0..(16 * (MaxAnchors + 2) - 1)

OutageDays == 16..31

\* the acquisition days of a source: 16-day composites (MOD13Q1), 8-day
\* composites (MOD11A2, MOD16A2), and one sample a day standing for the
\* hourly ERA5 samples
NativeDays(src) ==
    LET grid == CASE src = "NDVI" -> {d \in CatalogueDays : d % 16 = 0}
                  [] src = "LST"  -> {d \in CatalogueDays : d % 8 = 0}
                  [] src = "We"   -> {d \in CatalogueDays : d % 8 = 0}
                  [] src = "SOL"  -> CatalogueDays
    IN  IF defect.kind = "outage" /\ defect.src = src
        THEN grid \ OutageDays ELSE grid

NativeBands(src) ==
    CASE src = "NDVI" -> {"NDVI"}
      [] src = "LST"  -> {"LST_Day_1km"}
      [] src = "SOL"  -> {"surface_solar_radiation_downwards_hourly"}
      [] src = "We"   -> {"ET", "PET"}

NativeScale(src) ==
    CASE src = "NDVI" -> 250
      [] src = "LST"  -> 1000
      [] src = "SOL"  -> 11132
      [] src = "We"   -> 500

\* the stored value of one pixel of one band of one native image
RawValue(src, band, day, p) ==
    IF defect.kind = "hole" /\ defect.src = src /\ p = 1 THEN NoData
    ELSE CASE src = "NDVI" -> Num(5000 + 1000 * p + day)
           [] src = "LST"  -> IF p = 1
                              THEN (IF (day \div 8) % 2 = 0 THEN Num(290) ELSE Num(310))
                              ELSE Num(14901 + (day \div 8))
           [] src = "SOL"  -> Num(20000000 + 500000 * p + 1000 * day)
           [] src = "We"   -> IF p = 1
                              THEN Num(100 + day)
                              ELSE IF band = "PET" THEN Num(50)
                              ELSE IF day < 32 THEN Num(0) ELSE Num(30)

\* ------------------------------------------------------------------ images
NoBands == [b \in {} |-> [p \in Pixels |-> NoData]]

NoProps == [k \in {} |-> 0]

\* a computed object whose evaluation fails
Failed == [ok |-> FALSE, bands |-> NoBands, props |-> NoProps, scale |-> 0, ops |-> <<>>]

NativeImage(src, day) ==
    [ok    |-> TRUE,
     bands |-> [b \in NativeBands(src) |-> [p \in Pixels |-> RawValue(src, b, day, p)]],
     props |-> [k \in {"system:time_start"} |-> day],
     scale |-> NativeScale(src),
     ops   |-> <<>>]

BandNames(img) == DOMAIN img.bands

\* the valid (unmasked) pixels of an image: valid in every band
ValidPixels(img) == {p \in Pixels : \A b \in BandNames(img) : IsValid(img.bands[b][p])}

\* ee.Image.select(band)
Select(img, band) ==
    IF ~img.ok \/ band \notin BandNames(img) THEN Failed
    ELSE [img EXCEPT !.bands = [b \in {band} |-> img.bands[band]],
                     !.ops = Append(@, "select")]

\* ee.Image.rename(name): one name for one band
Rename(img, name) ==
    IF ~img.ok \/ Cardinality(BandNames(img)) # 1 THEN Failed
    ELSE LET old == CHOOSE b \in BandNames(img) : TRUE
         IN  [img EXCEPT !.bands = [b \in {name} |-> img.bands[old]],
                         !.ops = Append(@, "rename")]

\* arithmetic with a constant; the result keeps no properties of the input
Apply(opname, a, c) ==
    CASE opname = "multiply" -> Multiply(a, c)
      [] opname = "subtract" -> Subtract(a, c)
      [] opname = "divide"   -> Divide(a, c)
      [] opname = "add"      -> Add(a, c)

Arith(img, opname, c) ==
    IF ~img.ok THEN Failed
    ELSE [img EXCEPT !.bands = [b \in BandNames(img) |->
                                  [p \in Pixels |-> Apply(opname, img.bands[b][p], c)]],
                     !.props = NoProps,
                     !.ops = Append(@, opname)]

\* ee.Image.divide(other) of two one-band images: the band keeps the name of
\* the first
DivideImages(a, b) ==
    IF ~a.ok \/ ~b.ok \/ Cardinality(BandNames(a)) # 1 \/ Cardinality(BandNames(b)) # 1
    THEN Failed
    ELSE LET ba == CHOOSE x \in BandNames(a) : TRUE
             bb == CHOOSE x \in BandNames(b) : TRUE
         IN  [a EXCEPT !.bands = [x \in {ba} |->
                                    [p \in Pixels |-> Divide(a.bands[ba][p], b.bands[bb][p])]],
                       !.props = NoProps,
                       !.ops = Append(@, "divide")]

\* pixels outside the kept set become no-data
MaskTo(img, keep) ==
    [b \in BandNames(img) |->
        [p \in Pixels |-> IF p \in keep THEN img.bands[b][p] ELSE NoData]]

\* ee.Image.clip(ROI)
Clip(img) ==
    IF ~img.ok THEN Failed
    ELSE [img EXCEPT !.bands = MaskTo(img, ROI), !.ops = Append(@, "clip")]

\* ee.Image.reproject('EPSG:4326', null, SCALE_M_PX)
Reproject(img) ==
    IF ~img.ok THEN Failed
    ELSE [img EXCEPT !.scale = SCALE_M_PX, !.ops = Append(@, "reproject")]

\* ee.Image.set(key, value)
SetProp(img, key, value) ==
    IF ~img.ok THEN Failed
    ELSE [img EXCEPT !.props = [k \in (DOMAIN img.props) \cup {key} |->
                                  IF k = key THEN value ELSE img.props[k]],
                     !.ops = Append(@, "set")]

\* ee.Image.updateMask(mask)
UpdateMask(img, mask) ==
    IF ~img.ok THEN Failed
    ELSE [img EXCEPT !.bands = MaskTo(img, mask), !.ops = Append(@, "updateMask")]

\* ----------------------------------------------------- provider reductions
\* .filterDate(start, end): the images acquired in [start, end)
FilterDate(src, range) == {d \in NativeDays(src) : range[1] <= d /\ d < range[2]}

ValidDays(src, band, days, p) == {d \in days : IsValid(RawValue(src, band, d, p))}

RECURSIVE SumOver(_, _, _, _)
SumOver(src, band, days, p) ==
    IF days = {} THEN Num(0)
    ELSE LET d == CHOOSE x \in days : TRUE
         IN  Add(RawValue(src, band, d, p), SumOver(src, band, days \ {d}, p))

\* the per-pixel sum over the images in which the pixel is valid
PixelSum(src, band, days, p) ==
    LET v == ValidDays(src, band, days, p)
    IN  IF v = {} THEN NoData ELSE SumOver(src, band, v, p)

\* the per-pixel mean over the images in which the pixel is valid
PixelMean(src, band, days, p) ==
    LET v == ValidDays(src, band, days, p)
    IN  IF v = {} THEN NoData
        ELSE Divide(SumOver(src, band, v, p), Num(Cardinality(v)))

\* ee.ImageCollection.mean() / .sum() over the images of `days`, bands `bands`.
\* The reduction of an empty collection is the provider's: an image of the
\* bands with every pixel masked, or an image without bands.
Reduce(src, bands, days, opname) ==
    [ok    |-> TRUE,
     bands |-> IF days = {}
               THEN (IF emptyReduce = "nodata"
                     THEN [b \in bands |-> [p \in Pixels |-> NoData]]
                     ELSE NoBands)
               ELSE [b \in bands |-> [p \in Pixels |->
                        IF opname = "mean" THEN PixelMean(src, b, days, p)
                        ELSE PixelSum(src, b, days, p)]],
     props |-> NoProps,
     scale |-> NativeScale(src),
     ops   |-> <<opname>>]

\* ------------------------------------------------------------- the schedule
\* a window of one 8-day composite instead of two
WindowOneComposite(dateString) ==
    <<ParseDate(dateString), Advance(ParseDate(dateString), 8)>>

\* lines 80, 102, 123: the window of one anchor
Window(dateString) == <<ParseDate(dateString), Advance(ParseDate(dateString), 16)>>

\* the end bound without the added day
NativeRangeNoAdvance == <<ParseDate(dates[1]), ParseDate(dates[Len(dates)])>>

\* lines 44-45: the filter range of the NDVI collection
NativeRange == <<ParseDate(dates[1]), Advance(ParseDate(dates[Len(dates)]), 1)>>

\* -------------------------------------------------------- series builders
\* lines 62-69: the function mapped over the NDVI collection
NDVIImage(img) ==
    SetProp(
        Reproject(Arith(Rename(Clip(img), "NDVI"), "multiply", Rat(1, 10000))),
        "date", FormatDate(img.props["system:time_start"]))

\* the offset subtracted before the scale is applied
LSTConvertOffsetFirst(days) ==
    Arith(
        Arith(Rename(Reduce("LST", {"LST_Day_1km"}, days, "mean"), "LST"),
              "subtract", Rat(27315, 100)),
        "multiply", Rat(2, 100))

\* lines 82-85: mean, rename, scale, Kelvin to Celsius
LSTConvert(days) ==
    Arith(
        Arith(Rename(Reduce("LST", {"LST_Day_1km"}, days, "mean"), "LST"),
              "multiply", Rat(2, 100)),
        "subtract", Rat(27315, 100))

\* lines 77-89
LSTImage(dateString) ==
    SetProp(Reproject(Clip(LSTConvert(FilterDate("LST", Window(dateString))))),
            "date", dateString)

\* the sum reprojected before it is clipped
SOLImageReprojectFirst(dateString) ==
    SetProp(
        Clip(Reproject(
            Arith(Rename(Reduce("SOL", {"surface_solar_radiation_downwards_hourly"},
                                FilterDate("SOL", Window(dateString)), "sum"),
                         "SOL"),
                  "divide", Num(1000000)))),
        "date", dateString)

\* lines 99-110
SOLImage(dateString) ==
    SetProp(
        Reproject(Clip(
            Arith(Rename(Reduce("SOL", {"surface_solar_radiation_downwards_hourly"},
                                FilterDate("SOL", Window(dateString)), "sum"),
                         "SOL"),
                  "divide", Num(1000000)))),
        "date", dateString)

\* 0.5 added before the ratio is halved
WeTransformAddFirst(imageSum16days) ==
    Arith(
        Arith(DivideImages(Select(imageSum16days, "ET"), Select(imageSum16days, "PET")),
              "add", Rat(1, 2)),
        "multiply", Rat(1, 2))

\* lines 128-130: We = ET / PET * 0.5 + 0.5
WeTransform(imageSum16days) ==
    Arith(
        Arith(DivideImages(Select(imageSum16days, "ET"), Select(imageSum16days, "PET")),
              "multiply", Rat(1, 2)),
        "add", Rat(1, 2))

\* lines 120-138
WeImage(dateString) ==
    SetProp(
        Reproject(Clip(Rename(
            WeTransform(Reduce("We", {"ET", "PET"},
                               FilterDate("We", Window(dateString)), "sum")),
            "We"))),
        "data", dateString)

RECURSIVE SortedDays(_)
SortedDays(S) ==
    IF S = {} THEN <<>>
    ELSE LET m == CHOOSE x \in S : \A y \in S : x <= y
         IN  <<m>> \o SortedDays(S \ {m})

\* lines 58-69: the collection in acquisition order
NDVIList ==
    LET days == SortedDays(FilterDate("NDVI", <<startDate, endDate>>))
    IN  [i \in 1..Len(days) |-> NDVIImage(NativeImage("NDVI", days[i]))]

\* the map stopping one anchor short
LSTListShort == [i \in 1..(Len(dates) - 1) |-> LSTImage(dates[i])]

\* dates.map(...) of lines 77, 99, 120
LSTList == [i \in 1..Len(dates) |-> LSTImage(dates[i])]

SOLList == [i \in 1..Len(dates) |-> SOLImage(dates[i])]

WeList == [i \in 1..Len(dates) |-> WeImage(dates[i])]

WindowList == [i \in 1..Len(dates) |-> Window(dates[i])]

\* the mask not applied
maskNothing(img) == img

\* line 184
maskCollections(img) == UpdateMask(img, soybeanMask)

MapMask(coll) == [i \in 1..Len(coll) |-> maskCollections(coll[i])]

\* ee.ImageCollection.first(): null for an empty collection
First(coll) == IF Len(coll) = 0 THEN Failed ELSE coll[1]

\* every pixel of the region counted, masked or not
CountPixelsOfRegion(img, band) ==
    IF ~img.ok \/ band \notin BandNames(img) THEN -1
    ELSE Cardinality(ROI)

\* lines 232-241: reduceRegion(count, scale, ROI).get(band); -1 when the
\* evaluation fails
CountPixels(img, band) ==
    IF ~img.ok \/ band \notin BandNames(img) THEN -1
    ELSE Cardinality({p \in ROI : IsValid(img.bands[band][p])})

\* ------------------------------------------------------------------ actions
AnchorLists == UNION {[1..n -> AnchorDates] : n \in 1..MaxAnchors}

Defects ==
    {[kind |-> "none", src |-> "NDVI"]}
    \cup {[kind |-> k, src |-> s] : k \in {"outage", "hole"}, s \in Sources}

NotCalled == [made |-> FALSE, inputs |-> <<>>, topt |-> Topt, luemax |-> LUEmax]

NotCounted == [made |-> FALSE, first |-> <<>>, n |-> <<>>]

\* the anchor list of line 43 cut or continued on its 16-day grid
ConfiguredDates(n) == [i \in 1..n |-> FormatDate(16 * (i - 1))]

\* The configurations explored: every anchor list over the configured dates
\* with the whole grid inside the region and the mask, and the configured
\* anchors with every region, mask and catalogue defect.  The reduction of
\* an empty collection takes both outcomes wherever a window can be empty.
Init ==
    /\ \/ /\ dates \in AnchorLists
          /\ ROI = Pixels
          /\ soybeanMask = Pixels
          /\ defect \in {f \in Defects : f.kind # "hole" /\ f.src = "NDVI"}
       \/ /\ dates \in {ConfiguredDates(n) : n \in 1..MaxAnchors}
          /\ ROI \in (SUBSET Pixels) \ {{}}
          /\ soybeanMask \in SUBSET Pixels
          /\ defect \in Defects
    /\ emptyReduce \in (IF defect.kind = "outage" /\ defect.src \in Accumulated
                        THEN {"nodata", "nobands"} ELSE {"nodata"})
    /\ pc = "dates"
    /\ startDate = 0
    /\ endDate = 0
    /\ collectionNDVI = <<>>
    /\ collectionLST = <<>>
    /\ collectionSOL = <<>>
    /\ collectionWe = <<>>
    /\ queries = [s \in Sources |-> <<>>]
    /\ batchCall = NotCalled
    /\ counts = NotCounted
    /\ singleCall = NotCalled

\* lines 43-45
Schedule ==
    /\ pc = "dates"
    /\ startDate' = NativeRange[1]
    /\ endDate' = NativeRange[2]
    /\ pc' = "ndvi"
    /\ UNCHANGED <<dates, ROI, soybeanMask, defect, emptyReduce, collectionNDVI,
                   collectionLST, collectionSOL, collectionWe, queries, batchCall,
                   counts, singleCall>>

\* lines 58-69
BuildNDVI ==
    /\ pc = "ndvi"
    /\ queries' = [queries EXCEPT !["NDVI"] = << <<startDate, endDate>> >>]
    /\ collectionNDVI' = NDVIList
    /\ pc' = "lst"
    /\ UNCHANGED <<dates, ROI, soybeanMask, defect, emptyReduce, startDate, endDate,
                   collectionLST, collectionSOL, collectionWe, batchCall, counts,
                   singleCall>>

\* lines 77-91
BuildLST ==
    /\ pc = "lst"
    /\ queries' = [queries EXCEPT !["LST"] = WindowList]
    /\ collectionLST' = LSTList
    /\ pc' = "sol"
    /\ UNCHANGED <<dates, ROI, soybeanMask, defect, emptyReduce, startDate, endDate,
                   collectionNDVI, collectionSOL, collectionWe, batchCall, counts,
                   singleCall>>

\* lines 99-112
BuildSOL ==
    /\ pc = "sol"
    /\ queries' = [queries EXCEPT !["SOL"] = WindowList]
    /\ collectionSOL' = SOLList
    /\ pc' = "we"
    /\ UNCHANGED <<dates, ROI, soybeanMask, defect, emptyReduce, startDate, endDate,
                   collectionNDVI, collectionLST, collectionWe, batchCall, counts,
                   singleCall>>

\* lines 120-140
BuildWe ==
    /\ pc = "we"
    /\ queries' = [queries EXCEPT !["We"] = WindowList]
    /\ collectionWe' = WeList
    /\ pc' = "mask"
    /\ UNCHANGED <<dates, ROI, soybeanMask, defect, emptyReduce, startDate, endDate,
                   collectionNDVI, collectionLST, collectionSOL, batchCall, counts,
                   singleCall>>

\* lines 182-189
MaskCollections ==
    /\ pc = "mask"
    /\ collectionNDVI' = MapMask(collectionNDVI)
    /\ collectionLST' = MapMask(collectionLST)
    /\ collectionSOL' = MapMask(collectionSOL)
    /\ collectionWe' = MapMask(collectionWe)
    /\ pc' = "batch"
    /\ UNCHANGED <<dates, ROI, soybeanMask, defect, emptyReduce, startDate, endDate,
                   queries, batchCall, counts, singleCall>>

\* lines 206-212
CollectionNPP ==
    /\ pc = "batch"
    /\ batchCall' = [made   |-> TRUE,
                     inputs |-> <<collectionNDVI, collectionLST, collectionSOL, collectionWe>>,
                     topt   |-> Topt,
                     luemax |-> LUEmax]
    /\ pc' = "count"
    /\ UNCHANGED <<dates, ROI, soybeanMask, defect, emptyReduce, startDate, endDate,
                   collectionNDVI, collectionLST, collectionSOL, collectionWe, queries,
                   counts, singleCall>>

\* lines 226-241
PixelCount ==
    /\ pc = "count"
    /\ LET first == <<First(collectionNDVI), First(collectionLST),
                      First(collectionSOL), First(collectionWe)>>
       IN  counts' = [made  |-> TRUE,
                      first |-> first,
                      n     |-> <<CountPixels(first[1], "NDVI"), CountPixels(first[2], "LST"),
                                  CountPixels(first[3], "SOL"), CountPixels(first[4], "We")>>]
    /\ pc' = "single"
    /\ UNCHANGED <<dates, ROI, soybeanMask, defect, emptyReduce, startDate, endDate,
                   collectionNDVI, collectionLST, collectionSOL, collectionWe, queries,
                   batchCall, singleCall>>

\* line 244
SingleNPP ==
    /\ pc = "single"
    /\ singleCall' = [made   |-> TRUE,
                      inputs |-> counts.first,
                      topt   |-> Topt,
                      luemax |-> LUEmax]
    /\ pc' = "done"
    /\ UNCHANGED <<dates, ROI, soybeanMask, defect, emptyReduce, startDate, endDate,
                   collectionNDVI, collectionLST, collectionSOL, collectionWe, queries,
                   batchCall, counts>>

Next ==
    \/ Schedule
    \/ BuildNDVI
    \/ BuildLST
    \/ BuildSOL
    \/ BuildWe
    \/ MaskCollections
    \/ CollectionNPP
    \/ PixelCount
    \/ SingleNPP

Spec == Init /\ [][Next]_vars

\* ------------------------------------------------------------- properties
Built == pc \in {"mask", "batch", "count", "single", "done"}

Masked == pc \in {"batch", "count", "single", "done"}

StrictlyIncreasing(d) ==
    \A i \in 1..(Len(d) - 1) : ParseDate(d[i]) < ParseDate(d[i + 1])

ValidAnchors(d) == Len(d) >= 2 /\ StrictlyIncreasing(d)

Line43 == << <<2018, 1, 1>>, <<2018, 1, 17>>, <<2018, 2, 2>>, <<2018, 2, 18>> >>

Collection(s) ==
    CASE s = "NDVI" -> collectionNDVI
      [] s = "LST"  -> collectionLST
      [] s = "SOL"  -> collectionSOL
      [] s = "We"   -> collectionWe

\* the collection as built, before the mask
Unmasked(s) ==
    CASE s = "NDVI" -> NDVIList
      [] s = "LST"  -> LSTList
      [] s = "SOL"  -> SOLList
      [] s = "We"   -> WeList

\* one window per anchor, each from the anchor to 16 days later, and the
\* native range from the first anchor to the day after the last
OneWindowPerAnchor ==
    /\ \A s \in Accumulated :
          /\ Len(queries[s]) = Len(dates)
          /\ \A i \in 1..Len(dates) :
                /\ queries[s][i][1] = ParseDate(dates[i])
                /\ queries[s][i][2] - queries[s][i][1] = 16
    /\ Len(queries["NDVI"]) = 1
    /\ queries["NDVI"][1][1] = ParseDate(dates[1])
    /\ queries["NDVI"][1][2] = ParseDate(dates[Len(dates)]) + 1

\* C1: for a valid anchor list of length N >= 2 the schedule yields N windows
\* of 16 days, one starting at each anchor, and the native range
\* [anchor[0], anchor[N-1] + 1 day]; for the anchors of line 43 these are 4
\* windows and the native range [2018-01-01, 2018-02-19].
C1_Schedule ==
    (Built /\ ValidAnchors(dates)) =>
        /\ OneWindowPerAnchor
        /\ dates = Line43 =>
              /\ \A s \in Accumulated : Len(queries[s]) = 4
              /\ FormatDate(queries["NDVI"][1][1]) = <<2018, 1, 1>>
              /\ FormatDate(queries["NDVI"][1][2]) = <<2018, 2, 19>>
              /\ FormatDate(queries["We"][4][1]) = <<2018, 2, 18>>
              /\ FormatDate(queries["We"][4][2]) = <<2018, 3, 6>>

C1_Witness == pc = "done" /\ dates = Line43

\* C2: every image of the four collections carries a property `date` holding
\* the ISO date of its window start (of its composite, for NDVI).
C2_EveryImageDated ==
    Built =>
        /\ \A s \in Accumulated : \A i \in 1..Len(Collection(s)) :
              Collection(s)[i].ok =>
                  /\ "date" \in DOMAIN Collection(s)[i].props
                  /\ Collection(s)[i].props["date"] = dates[i]
        /\ \A i \in 1..Len(collectionNDVI) :
              collectionNDVI[i].ok =>
                  /\ "date" \in DOMAIN collectionNDVI[i].props
                  /\ ParseDate(collectionNDVI[i].props["date"]) \in
                        FilterDate("NDVI", <<startDate, endDate>>)

BatchLengths == [k \in 1..4 |-> Len(batchCall.inputs[k])]

Footprint(s, i) == ValidPixels(Collection(s)[i])

Aligned(i) == \A s \in Sources : i <= Len(Collection(s)) /\ Collection(s)[i].ok

\* C5 as stated: after the mask the four entries of a period have the same
\* valid pixels.
C5_SameFootprint ==
    Masked => \A i \in 1..Len(dates) :
        Aligned(i) => \A s \in Sources : Footprint(s, i) = Footprint("NDVI", i)

\* C5 amended: the mask step leaves of every entry the valid pixels it had
\* that the mask keeps, so afterwards every footprint lies inside the mask,
\* and the footprints of a period differ where the sources differed inside it.
C5_FootprintInsideMask ==
    /\ [](Masked => \A s \in Sources : \A i \in 1..Len(Collection(s)) :
              Collection(s)[i].ok => Footprint(s, i) \subseteq soybeanMask)
    /\ [][pc = "mask" => \A s \in Sources :
              /\ Len(Collection(s))' = Len(Collection(s))
              /\ \A i \in 1..Len(Collection(s)) :
                    /\ Collection(s)[i].ok' = Collection(s)[i].ok
                    /\ Collection(s)[i].ok =>
                          Footprint(s, i)' = Footprint(s, i) \cap soybeanMask]_vars

C5_Witness ==
    /\ pc = "done"
    /\ Aligned(1)
    /\ Footprint("LST", 1) # Footprint("NDVI", 1)
    /\ Footprint("NDVI", 1) # {}

SourceOf == <<"NDVI", "LST", "SOL", "We">>

\* C7 as stated: the printed counts are those of the entries before the mask.
C7_CountsOfUnmasked ==
    counts.made => \A k \in 1..4 :
        counts.first[k].ok =>
            counts.n[k] = Cardinality(ValidPixels(First(Unmasked(SourceOf[k]))) \cap ROI)

\* C7 amended: the printed counts are the valid pixels inside the region of
\* the first entries after the mask; they are computed before singleNPP is
\* called, and singleNPP is called whatever they are.
C7_CountsOfMasked ==
    /\ counts.made => \A k \in 1..4 :
          /\ Masked
          /\ counts.first[k] = First(Collection(SourceOf[k]))
          /\ counts.first[k].ok =>
                /\ ValidPixels(counts.first[k]) \subseteq soybeanMask
                /\ counts.n[k] = Cardinality(ValidPixels(counts.first[k]) \cap ROI)
          /\ ~counts.first[k].ok => counts.n[k] = -1
    /\ singleCall.made => counts.made /\ singleCall.inputs = counts.first
    /\ pc = "single" => ENABLED SingleNPP
    /\ pc = "done" => singleCall.made

C7_Witness ==
    /\ pc = "done"
    /\ singleCall.made
    /\ \A k \in 1..4 : counts.first[k].ok
    /\ counts.n[1] # counts.n[2]
    /\ counts.n[1] # Cardinality(ValidPixels(First(NDVIList)) \cap ROI)

WeValue(i, p) == collectionWe[i].bands["We"][p]

SumET(i, p) == PixelSum("We", "ET", FilterDate("We", queries["We"][i]), p)

SumPET(i, p) == PixelSum("We", "PET", FilterDate("We", queries["We"][i]), p)

\* C8: the We value of a pixel is ET_sum / PET_sum * 0.5 + 0.5: exactly 1
\* when the sums are equal and not 0, exactly 0.5 when ET_sum is 0 and
\* PET_sum is not.
C8_WeRatio ==
    Built => \A i \in 1..Len(collectionWe) : \A p \in Pixels :
        (collectionWe[i].ok /\ IsValid(WeValue(i, p))) =>
            LET n == SumET(i, p)
                d == SumPET(i, p)
                v == WeValue(i, p)
            IN  /\ IsValid(n) /\ IsValid(d)
                /\ d[1] # 0 =>
                      /\ 2 * v[1] * d[1] * n[2] = v[2] * (n[1] * d[2] + d[1] * n[2])
                      /\ n = d => v = <<1, 1>>
                      /\ n[1] = 0 => v = <<1, 2>>

C8_Witness ==
    /\ pc = "done"
    /\ \E i \in 1..Len(collectionWe) : \E p, q \in Pixels :
          /\ collectionWe[i].ok
          /\ IsValid(WeValue(i, p)) /\ SumET(i, p) = SumPET(i, p) /\ SumPET(i, p)[1] # 0
          /\ IsValid(WeValue(i, q)) /\ SumET(i, q)[1] = 0 /\ SumPET(i, q)[1] # 0
    /\ \E i \in 1..Len(collectionWe) : \E p \in Pixels :
          collectionWe[i].ok /\ IsValid(WeValue(i, p)) /\ WeValue(i, p) = <<4, 5>>

LSTValue(i, p) == collectionLST[i].bands["LST"][p]

MeanLST(i, p) == PixelMean("LST", "LST_Day_1km", FilterDate("LST", queries["LST"][i]), p)

\* C9: the LST value of a pixel is the window mean times 0.02, minus 273.15:
\* a mean of 300 gives -267.15.
C9_ScaleThenOffset ==
    Built => \A i \in 1..Len(collectionLST) : \A p \in Pixels :
        (collectionLST[i].ok /\ IsValid(LSTValue(i, p))) =>
            LET m == MeanLST(i, p)
                v == LSTValue(i, p)
            IN  /\ IsValid(m)
                /\ 100 * v[1] * m[2] = v[2] * (2 * m[1] - 27315 * m[2])
                /\ m = <<300, 1>> => v = <<-5343, 20>>

C9_Witness ==
    /\ pc = "done"
    /\ \E i \in 1..Len(collectionLST) : \E p, q \in Pixels :
          /\ collectionLST[i].ok
          /\ IsValid(LSTValue(i, p)) /\ MeanLST(i, p) = <<300, 1>>
          /\ IsValid(LSTValue(i, q)) /\ MeanLST(i, q)[2] = 2

Positions(img, names) == {j \in 1..Len(img.ops) : img.ops[j] \in names}

\* the steps of one image before the mask: at most one reduction, then one
\* clip, then one reprojection, then one tag
StepsInOrder(img) ==
    /\ Cardinality(Positions(img, {"clip"})) = 1
    /\ Cardinality(Positions(img, {"reproject"})) = 1
    /\ Cardinality(Positions(img, {"set"})) = 1
    /\ \A r \in Positions(img, {"mean", "sum"}) : \A c \in Positions(img, {"clip"}) : r < c
    /\ \A c \in Positions(img, {"clip"}) : \A j \in Positions(img, {"reproject"}) : c < j
    /\ \A j \in Positions(img, {"reproject"}) : \A t \in Positions(img, {"set"}) : j < t

\* C10: every image is reduced (where its source is reduced), then clipped,
\* then reprojected, then tagged, and is reprojected exactly once, to the
\* shared scale.
C10_ReduceClipReproject ==
    Built => \A s \in Sources : \A i \in 1..Len(Collection(s)) :
        Collection(s)[i].ok =>
            /\ StepsInOrder(Collection(s)[i])
            /\ Collection(s)[i].scale = SCALE_M_PX
            /\ Cardinality(Positions(Collection(s)[i], {"mean", "sum"}))
                  = (IF s \in Accumulated THEN 1 ELSE 0)

C10_Witness ==
    /\ pc = "done"
    /\ \A s \in Sources : Len(Collection(s)) >= 2 /\ Collection(s)[2].ok

====
